---- MODULE Spec2Model ----
(***************************************************************************)
(* Model of the page-segmentation engine of the manga viewer               *)
(* (src/src/Manga.py): pixel similarity, line and slope probes, find_cut   *)
(* with slope healing, the leading/trailing trimmers and                   *)
(* split_image_into_pages.                                                 *)
(*                                                                         *)
(* A raster image is a sequence of rows (row y of the program is element   *)
(* y + 1), a row is a sequence of pixels (column x is element x + 1), a    *)
(* pixel is an RGB triple <<r, g, b>>.  Python's None is the empty tuple.  *)
(***************************************************************************)
EXTENDS Integers, Sequences, FiniteSets, TLC

\* ------------------------------------------------------------------------
\* Program constants (class Manga and literals of its methods)
\* ------------------------------------------------------------------------
MIN_IMAGE_HEIGHT == 400
SLOPE_THRESHOLD == 50
NUM_EMPTY_LINES == 5
NUM_EMPTY_SLOPES == 20
SimilarThreshold == 5
BlackWhiteThreshold == 20
MaxDissimilar == 5
MinPageHeight == 10

\* ------------------------------------------------------------------------
\* Bounds of the model
\* ------------------------------------------------------------------------
\* Images are 2^WidthLog pixels wide.  With a power of two for the width the
\* floating point expression of get_slope_color is exact, so its int(...)
\* is the truncation of the exact quotient.
WidthLog == 3
\* Rows an input image has below MIN_IMAGE_HEIGHT (Slack) and below twice
\* MIN_IMAGE_HEIGHT (enough for a second cut).
Slack == 45
\* Largest page of freely mixed rows given to the trimmers on their own.
MaxPageHeight == 5

RECURSIVE Pow2(_)
Pow2(n) == IF n = 0 THEN 1 ELSE 2 * Pow2(n - 1)

Width == Pow2(WidthLog)

None == << >>

Abs(n) == IF n < 0 THEN -n ELSE n

Min(a, b) == IF a <= b THEN a ELSE b

Minimum(S) == CHOOSE r \in S : \A t \in S : r <= t

\* ------------------------------------------------------------------------
\* Pixel primitives
\* ------------------------------------------------------------------------
is_pixel_similar(pixel1, pixel2, threshold) ==
    IF pixel1 = None \/ pixel2 = None
    THEN FALSE
    ELSE \A c \in 1..3 : Abs(pixel1[c] - pixel2[c]) < threshold

is_pixel_black_or_white(pixel) ==
    \/ is_pixel_similar(pixel, <<0, 0, 0>>, BlackWhiteThreshold)
    \/ is_pixel_similar(pixel, <<255, 255, 255>>, BlackWhiteThreshold)

ImgHeight(image) == Len(image)

ImgWidth(image) == IF Len(image) = 0 THEN Width ELSE Len(image[1])

getpixel(image, x, y) == image[y + 1][x + 1]

\* int(): truncation toward zero of n / d, d > 0
TruncDiv(n, d) == IF n >= 0 THEN n \div d ELSE -((-n) \div d)

\* y_pos = int((1 - x / width) * start + (x / width) * end)
SlopeYPos(width, start, end, x) == TruncDiv((width - x) * start + x * end, width)

\* The exception image.getpixel raises for a position outside the image
IndexError == <<"IndexError">>

\* image.getpixel((x, y)) of the imaging library for any row y: a row of the
\* image gives its pixel, a row at or below the height raises, and a
\* negative row either counts from the last row up or raises as well,
\* depending on the release of the library (`negative`: "wrap" or "raise").
getpixel_any(image, x, y, negative) ==
    IF y >= 0 /\ y < ImgHeight(image) THEN getpixel(image, x, y)
    ELSE IF negative = "wrap" /\ y < 0 /\ y >= -ImgHeight(image)
         THEN getpixel(image, x, ImgHeight(image) + y)
         ELSE IndexError

\* slope_color with sample points outside the image counted as dissimilar
slope_color_counting_outside(image, y, offset_left, offset_right, negative) ==
    LET width == ImgWidth(image)
        height == ImgHeight(image)
    IN  IF y < 0 \/ y >= height
        THEN None
        ELSE LET start == y + offset_left
                 end == y + offset_right
                 mid == (start + end) \div 2
                 comparison_pixel == getpixel_any(image, width \div 2, mid, negative)
                 dissimilar == { x \in 0..(width - 1) :
                                   LET y_pos == SlopeYPos(width, start, end, x)
                                   IN  \/ y_pos < 0 \/ y_pos >= height
                                       \/ ~is_pixel_similar(getpixel(image, x, y_pos),
                                                            comparison_pixel,
                                                            SimilarThreshold) }
             IN  IF comparison_pixel = IndexError
                 THEN IndexError
                 ELSE IF Cardinality(dissimilar) > MaxDissimilar
                      THEN None
                      ELSE comparison_pixel

\* get_slope_color for any row and any offsets: the colour or None it
\* returns, or the IndexError that getpixel raises for the comparison pixel.
slope_color(image, y, offset_left, offset_right, negative) ==
    LET width == ImgWidth(image)
        height == ImgHeight(image)
    IN  IF y < 0 \/ y >= height
        THEN None
        ELSE LET start == y + offset_left
                 end == y + offset_right
                 mid == (start + end) \div 2
                 comparison_pixel == getpixel_any(image, width \div 2, mid, negative)
                 dissimilar == { x \in 0..(width - 1) :
                                   LET y_pos == SlopeYPos(width, start, end, x)
                                   IN  /\ ~(y_pos < 0 \/ y_pos >= height)
                                       /\ ~is_pixel_similar(getpixel(image, x, y_pos),
                                                            comparison_pixel,
                                                            SimilarThreshold) }
             IN  IF comparison_pixel = IndexError
                 THEN IndexError
                 ELSE IF Cardinality(dissimilar) > MaxDissimilar
                      THEN None
                      ELSE comparison_pixel

\* get_slope_color as find_cut calls it: the offsets are -50 and 50, the
\* comparison pixel is on row y itself
get_slope_color(image, y, offset_left, offset_right) ==
    slope_color(image, y, offset_left, offset_right, "raise")

get_line_color(image, y) ==
    LET width == ImgWidth(image)
        height == ImgHeight(image)
    IN  IF y < 0 \/ y >= height
        THEN None
        ELSE LET comparison_pixel == getpixel(image, width \div 2, y)
                 dissimilar == { x \in 0..(width - 1) :
                                   ~is_pixel_similar(getpixel(image, x, y),
                                                     comparison_pixel,
                                                     SimilarThreshold) }
             IN  IF Cardinality(dissimilar) > MaxDissimilar
                 THEN None
                 ELSE comparison_pixel

\* are_percent_of_lines_black_or_white counting the samples that are uniform,
\* whatever their colour
are_percent_of_lines_uniform(lines, pnum, pden) ==
    LET num_uniform == Cardinality({ i \in 1..Len(lines) : lines[i] # None })
    IN  num_uniform * pden >= pnum * Len(lines)

\* num_black_or_white / len(lines) >= percent, with percent = pnum / pden
are_percent_of_lines_black_or_white(lines, pnum, pden) ==
    LET num_black_or_white ==
            Cardinality({ i \in 1..Len(lines) : is_pixel_black_or_white(lines[i]) })
    IN  num_black_or_white * pden >= pnum * Len(lines)

are_all_lines_black_or_white(lines) ==
    are_percent_of_lines_black_or_white(lines, 1, 1)

\* ------------------------------------------------------------------------
\* find_cut: the pieces of its body
\* ------------------------------------------------------------------------
\* find_cut's first row without the clamp to the height
find_cut_start_unclamped(y0, height) == y0 + MIN_IMAGE_HEIGHT

\* find_cut's first row without the minimum page height
find_cut_start_from_y(y0, height) == Min(y0, height)

\* find_cut_start without the minimum page height: the scan starts on the row
\* after the cursor
find_cut_start_next_row(y0, height) == Min(y0 + 1, height)

\* y = min(y + Manga.MIN_IMAGE_HEIGHT, height)
find_cut_start(y0, height) == Min(y0 + MIN_IMAGE_HEIGHT, height)

\* find_cut_exit that stops scanning where the row window would leave the image
find_cut_exit_short(y, height, next_lines, next_slopes_left, next_slopes_right) ==
    IF ~(y < height - NUM_EMPTY_LINES) THEN "height"
    ELSE IF are_all_lines_black_or_white(next_lines) THEN "line"
    ELSE IF are_all_lines_black_or_white(next_slopes_left) THEN "left"
    ELSE IF are_all_lines_black_or_white(next_slopes_right) THEN "right"
    ELSE "continue"

\* find_cut_exit without the left-slope test
find_cut_exit_no_left(y, height, next_lines, next_slopes_left, next_slopes_right) ==
    IF ~(y < height) THEN "height"
    ELSE IF are_all_lines_black_or_white(next_lines) THEN "line"
    ELSE IF are_all_lines_black_or_white(next_slopes_right) THEN "right"
    ELSE "continue"

\* find_cut_exit testing the slope windows before the row window
find_cut_exit_slopes_first(y, height, next_lines, next_slopes_left, next_slopes_right) ==
    IF ~(y < height) THEN "height"
    ELSE IF are_all_lines_black_or_white(next_slopes_left) THEN "left"
    ELSE IF are_all_lines_black_or_white(next_slopes_right) THEN "right"
    ELSE IF are_all_lines_black_or_white(next_lines) THEN "line"
    ELSE "continue"

\* find_cut_exit without the test of the row window
find_cut_exit_no_line(y, height, next_lines, next_slopes_left, next_slopes_right) ==
    IF ~(y < height) THEN "height"
    ELSE IF are_all_lines_black_or_white(next_slopes_left) THEN "left"
    ELSE IF are_all_lines_black_or_white(next_slopes_right) THEN "right"
    ELSE "continue"

\* The loop condition and the three tests of one iteration of find_cut's
\* loop: the way the loop is left at row y ("height": the condition y < height
\* fails; "line", "left", "right": the break taken), or "continue".
find_cut_exit(y, height, next_lines, next_slopes_left, next_slopes_right) ==
    IF ~(y < height) THEN "height"
    ELSE IF are_all_lines_black_or_white(next_lines) THEN "line"
    ELSE IF are_all_lines_black_or_white(next_slopes_left) THEN "left"
    ELSE IF are_all_lines_black_or_white(next_slopes_right) THEN "right"
    ELSE "continue"

\* Heal that paints the whole width of the rows
HealWholeRows(image, y, x_from, x_to, color) ==
    [r \in 1..Len(image) |->
        IF (r - 1) >= y /\ (r - 1) < y + SLOPE_THRESHOLD
        THEN [c \in 1..Len(image[r]) |-> color]
        ELSE image[r]]

\* for x in range(x_from, x_to): for i in range(SLOPE_THRESHOLD):
\*     if y + i < height: image.putpixel((x, y + i), color)
Heal(image, y, x_from, x_to, color) ==
    [r \in 1..Len(image) |->
        IF (r - 1) >= y /\ (r - 1) < y + SLOPE_THRESHOLD
        THEN [c \in 1..Len(image[r]) |->
                IF (c - 1) >= x_from /\ (c - 1) < x_to THEN color ELSE image[r][c]]
        ELSE image[r]]

\* image.crop((0, upper, width, lower))
Crop(image, upper, lower) == SubSeq(image, upper + 1, lower)

\* ------------------------------------------------------------------------
\* Input rasters
\* ------------------------------------------------------------------------
White == <<255, 255, 255>>
Black == <<0, 0, 0>>
NearWhite == <<236, 236, 236>>
OffWhite == <<235, 235, 235>>
NearBlack == <<19, 19, 19>>
Gray == <<128, 128, 128>>
Red == <<200, 30, 30>>

\* A row of drawing: the middle pixel differs from every other pixel.
ContentPixel(x) == IF x = Width \div 2 THEN Red ELSE Gray

Feature(kind, at, len, color, x) ==
    [kind |-> kind, at |-> at, len |-> len, color |-> color, x |-> x]

Band(at, len, color) == Feature("band", at, len, color, 0)
Stripes(at, len, color) == Feature("stripes", at, len, color, 0)
DiagLeft(at, len, color) == Feature("diagL", at, len, color, 0)
DiagRight(at, len, color) == Feature("diagR", at, len, color, 0)
DiagLeftStripes(at, len, color) == Feature("diagLs", at, len, color, 0)
Dot(x, at, color) == Feature("pixel", at, 1, color, x)

\* The colour a feature gives pixel (x, y), None where it does not cover it.
FeaturePixel(f, x, y) ==
    CASE f.kind = "band" ->
            IF y >= f.at /\ y < f.at + f.len THEN f.color ELSE None
      [] f.kind = "stripes" ->
            IF y >= f.at /\ y < f.at + f.len
            THEN (IF (y - f.at) % 2 = 0 THEN f.color ELSE Black)
            ELSE None
      [] f.kind = "pixel" ->
            IF y = f.at /\ x = f.x THEN f.color ELSE None
      [] f.kind \in {"diagL", "diagLs"} ->
            IF y < f.at - SLOPE_THRESHOLD \/ y > f.at + f.len + SLOPE_THRESHOLD
            THEN None
            ELSE LET on == { s \in f.at..(f.at + f.len - 1) :
                               SlopeYPos(Width, s - SLOPE_THRESHOLD,
                                         s + SLOPE_THRESHOLD, x) = y }
                 IN  IF on = {} THEN None
                     ELSE IF f.kind = "diagL" THEN f.color
                     ELSE IF \E s \in on : (s - f.at) % 2 = 0 THEN f.color
                     ELSE Black
      [] f.kind = "diagR" ->
            IF y < f.at - SLOPE_THRESHOLD \/ y > f.at + f.len + SLOPE_THRESHOLD
            THEN None
            ELSE IF \E s \in f.at..(f.at + f.len - 1) :
                        SlopeYPos(Width, s + SLOPE_THRESHOLD,
                                  s - SLOPE_THRESHOLD, x) = y
                 THEN f.color
                 ELSE None

PixelOf(feats, x, y) ==
    LET hits == { i \in 1..Len(feats) : FeaturePixel(feats[i], x, y) # None }
    IN  IF hits = {}
        THEN ContentPixel(x)
        ELSE FeaturePixel(feats[CHOOSE i \in hits : \A j \in hits : j <= i], x, y)

MkImage(height, feats) ==
    [r \in 1..height |-> [c \in 1..Width |-> PixelOf(feats, c - 1, r - 1)]]

\* Feature positions are relative to MIN_IMAGE_HEIGHT, the first row find_cut
\* looks at when it starts from 0.
M == MIN_IMAGE_HEIGHT
OneCutHeight == M + Slack
TwoCutHeight == 2 * M + Slack

Input(height, feats) == [height |-> height, feats |-> feats]

BandInputs ==
    { Input(OneCutHeight, <<Band(at, len, color)>>) :
        at \in {M - 3, M, M + 7}, len \in {4, 5, 9},
        color \in {White, NearBlack, OffWhite, Gray} }

StripeInputs ==
    { Input(OneCutHeight, <<Stripes(M + 2, len, White)>>) : len \in {5, 6} }

DiagLeftInputs ==
    { Input(OneCutHeight, <<DiagLeft(at, len, color)>>) :
        at \in {M + 1, M + 5}, len \in {19, 20, 22}, color \in {White, NearBlack} }
    \cup
    { Input(OneCutHeight, <<DiagLeft(at, len, White), Dot(Width \div 2, at - 1, White)>>) :
        at \in {M + 1, M + 5}, len \in {20, 22} }
    \cup
    { Input(OneCutHeight, <<DiagLeftStripes(M + 1, 20, White)>>) }

DiagRightInputs ==
    { Input(OneCutHeight, <<DiagRight(at, len, color)>>) :
        at \in {M + 1, M + 5}, len \in {19, 20, 22}, color \in {White, NearBlack} }

\* A blank region tall enough for a row window and a slope window to
\* qualify at the same row.
BlankInputs ==
    { Input(OneCutHeight, <<Band(M - 60, len, White)>>) : len \in {150, 80} }

SmallInputs ==
    { Input(h, <<>>) : h \in {0, 1, 9, 10, 30} }
    \cup { Input(h, <<Band(0, h, White)>>) : h \in {1, 2, 3, 12} }
    \cup { Input(h, <<Band(0, 4, White)>>) : h \in {13, 14} }

\* A diagonal gap with a blank band of rows further down.
DiagThenBandInputs ==
    { Input(OneCutHeight, <<DiagLeft(M + 1, 20, color), Band(M + 30, 6, White)>>) :
        color \in {White, NearBlack} }

TwoCutInputs ==
    { Input(TwoCutHeight, <<Band(M + 3, 6, White)>>),
      Input(TwoCutHeight, <<Band(M + 3, 6, White), Band(2 * M + 12, 7, Black)>>),
      Input(TwoCutHeight, <<Band(M + 3, 6, White), DiagLeft(2 * M + 10, 20, White),
                            Dot(Width \div 2, 2 * M + 9, White)>>),
      Input(TwoCutHeight, <<DiagLeft(M + 1, 20, White), Dot(Width \div 2, M, White),
                            Band(2 * M + 20, 6, White)>>) }

\* The single band scenario: a raster of 3000 rows of content whose rows
\* 1000..1010 are flat white.
BandScenario == Input(3000, <<Band(1000, 11, White)>>)

ScenarioInputs == {BandScenario}

Inputs ==
    BandInputs \cup StripeInputs \cup DiagLeftInputs \cup DiagRightInputs
    \cup BlankInputs \cup SmallInputs \cup DiagThenBandInputs \cup TwoCutInputs

\* ------------------------------------------------------------------------
\* State
\* ------------------------------------------------------------------------
VARIABLES
    image,              \* the stitched raster (mutated in place by healing)
    y,                  \* cursor of split_image_into_pages; y of find_cut
    top,                \* top of the slab being cut
    pages,              \* list of pages appended so far
    page,               \* the page being trimmed
    next_lines,         \* window of row samples (find_cut and the trimmers)
    next_slopes_left,   \* window of left-slope samples of find_cut
    next_slopes_right,  \* window of right-slope samples of find_cut
    lines_to_remove,    \* row count of the trimmer that is running
    pc,                 \* position in the code
    caller,             \* what the run is: "split", "find_cut", "trim" or "mirror"
    run,        \* 1 during the first segmentation of the raster, 2 during the second
    slabs,      \* history: [top, cut, stop] of every find_cut call of this run
    trimmed,    \* history: trimmed height of every slab of this run
    led,        \* history: rows remove_leading_white_space took off the page
    trailed,    \* history: rows remove_trailing_white_space took off the page
    pageTops,   \* history: row of the raster where each page of `pages` starts
    preImage,   \* history: the raster (the page, for the trimmers) before the call
    first,      \* history: slabs and pages of the first run
    strips,     \* the number of strip images the chapter's site serves
    chapterPages,   \* the pages split_image_into_pages yields for the chapter
    folder,     \* whether the chapter folder exists
    files,      \* the files of the chapter folder: name -> content
    procs,      \* per process: its position in process_images_from_chapter
    saved,      \* history: some run has saved all its pages and returned
    y_offset_left,      \* arguments of a call of get_slope_color on its own
    y_offset_right,
    negative_rows,      \* getpixel of the imaging library on a negative row
    sampled,            \* what the call of a probe on its own returned
    self_pages,         \* the viewer's self.pages
    current_page,       \* the viewer's self.current_page
    self_chapter,       \* the viewer's self.chapter
    chapter_input,      \* the text of the viewer's chapter entry
    outcomes,           \* what each requests.get of a fetch(url) does
    attempts,           \* history: the number of requests.get calls made
    fetched,            \* what fetch(url) returned or raised
    fetch_pc,           \* position in fetch
    all_chapters,       \* the number of chapters of manga.get_all_chapters()
    chapter_index,      \* i of the loop of prefetch_all_chapters
    processes,          \* the list `processes` of prefetch_all_chapters
    started,            \* history: the chapters whose process was started
    joined,             \* history: the chapters whose process was joined
    prefetch_pc         \* position in prefetch_all_chapters

locals == <<next_lines, next_slopes_left, next_slopes_right, lines_to_remove>>

\* the variables of the segmentation of one raster
segmentation == <<image, y, top, pages, page, next_lines, next_slopes_left,
                  next_slopes_right, lines_to_remove, pc, caller, run, slabs, trimmed,
                  led, trailed, pageTops, preImage, first>>

\* the variables of the chapter storage and of the processes that use it
chapter == <<strips, chapterPages, folder, files, procs, saved>>

\* the variables of a probe called on its own
probe == <<y_offset_left, y_offset_right, negative_rows, sampled>>

\* the variables of the viewer
viewer == <<self_pages, current_page, self_chapter, chapter_input>>

\* the variables of a call of fetch
fetching == <<outcomes, attempts, fetched, fetch_pc>>

\* the variables of a call of prefetch_all_chapters
prefetch == <<all_chapters, chapter_index, processes, started, joined, prefetch_pc>>

apps == <<viewer, fetching, prefetch>>

vars == <<segmentation, chapter, probe, apps>>

\* No viewer is open
NoViewer ==
    /\ self_pages = <<>>
    /\ current_page = 0
    /\ self_chapter = <<>>
    /\ chapter_input = <<>>

\* No fetch is called on its own
NoFetch ==
    /\ outcomes = <<>>
    /\ attempts = 0
    /\ fetched = <<>>
    /\ fetch_pc = ""

\* No prefetch runs
NoPrefetch ==
    /\ all_chapters = 0
    /\ chapter_index = 0
    /\ processes = <<>>
    /\ started = <<>>
    /\ joined = <<>>
    /\ prefetch_pc = ""

NoApps == NoViewer /\ NoFetch /\ NoPrefetch

NoRun == [slabs |-> <<>>, pages |-> <<>>, pageTops |-> <<>>]

\* No probe is called on its own
NoProbe ==
    /\ y_offset_left = 0
    /\ y_offset_right = 0
    /\ negative_rows = "raise"
    /\ sampled = <<>>

\* No chapter is being processed
NoChapter ==
    /\ strips = 0
    /\ chapterPages = <<>>
    /\ folder = FALSE
    /\ files = <<>>
    /\ procs = <<>>
    /\ saved = FALSE

Height == ImgHeight(image)

\* ------------------------------------------------------------------------
\* find_cut, one action per iteration of its loop
\* ------------------------------------------------------------------------
\* Entry of find_cut(image, y0): the first row and the three windows
FindCutEnter(y0) ==
    LET start == find_cut_start(y0, Height)
    IN  /\ y' = start
        /\ next_lines' =
              [i \in 1..NUM_EMPTY_LINES |-> get_line_color(image, start + i - 1)]
        /\ next_slopes_left' =
              [i \in 1..NUM_EMPTY_SLOPES |->
                 get_slope_color(image, start + i - 1, -SLOPE_THRESHOLD, SLOPE_THRESHOLD)]
        /\ next_slopes_right' =
              [i \in 1..NUM_EMPTY_SLOPES |->
                 get_slope_color(image, start + i - 1, SLOPE_THRESHOLD, -SLOPE_THRESHOLD)]
        /\ preImage' = image
        /\ pc' = "find_cut"

\* no test passes at row y: y += 1 and the windows move down one row
FindCutAdvance ==
    /\ pc = "find_cut"
    /\ find_cut_exit(y, Height, next_lines, next_slopes_left, next_slopes_right)
          = "continue"
    /\ y' = y + 1
    /\ next_lines' =
          Append(Tail(next_lines), get_line_color(image, y + 1 + NUM_EMPTY_LINES - 1))
    /\ next_slopes_left' =
          Append(Tail(next_slopes_left),
                 get_slope_color(image, y + 1 + NUM_EMPTY_SLOPES - 1,
                                 -SLOPE_THRESHOLD, SLOPE_THRESHOLD))
    /\ next_slopes_right' =
          Append(Tail(next_slopes_right),
                 get_slope_color(image, y + 1 + NUM_EMPTY_SLOPES - 1,
                                 SLOPE_THRESHOLD, -SLOPE_THRESHOLD))
    /\ UNCHANGED <<image, top, pages, page, lines_to_remove, pc, caller, run, slabs,
                   trimmed, led, trailed, pageTops, preImage, first>>
    /\ UNCHANGED <<chapter, probe, apps>>

\* the loop ends at row y (with the healing writes of a slope break): return y
FindCutReturn ==
    /\ pc = "find_cut"
    /\ LET exit == find_cut_exit(y, Height, next_lines, next_slopes_left,
                                 next_slopes_right)
           width == ImgWidth(image)
       IN  /\ exit # "continue"
           /\ image' =
                 CASE exit = "left" ->
                        Heal(image, y, width \div 2, width,
                             next_slopes_left[(NUM_EMPTY_LINES \div 2) + 1])
                   [] exit = "right" ->
                        Heal(image, y, 0, width \div 2,
                             next_slopes_right[(NUM_EMPTY_LINES \div 2) + 1])
                   [] OTHER -> image
           /\ slabs' = Append(slabs, [top |-> top, cut |-> y, stop |-> exit])
    /\ pc' = IF caller = "split" THEN "crop" ELSE "returned"
    /\ UNCHANGED <<y, top, pages, page, locals, caller, run, trimmed, led, trailed, pageTops,
                   preImage, first>>
    /\ UNCHANGED <<chapter, probe, apps>>

\* ------------------------------------------------------------------------
\* The trimmers, one action per iteration of their loops
\* ------------------------------------------------------------------------
\* remove_leading_white_space(page): lines_to_remove = 0 and the first window
LeadingEnter ==
    /\ pc = "leading_enter"
    /\ lines_to_remove' = 0
    /\ next_lines' = [i \in 1..NUM_EMPTY_LINES |-> get_line_color(page, i - 1)]
    /\ pc' = "leading"
    /\ UNCHANGED <<image, y, top, pages, page, next_slopes_left, next_slopes_right,
                   caller, run, slabs, trimmed, led, trailed, pageTops, preImage, first>>
    /\ UNCHANGED <<chapter, probe, apps>>

LeadingContinues ==
    /\ lines_to_remove < ImgHeight(page)
    /\ are_percent_of_lines_black_or_white(next_lines, 1, 2)

LeadingAdvance ==
    /\ pc = "leading"
    /\ LeadingContinues
    /\ lines_to_remove' = lines_to_remove + 1
    /\ next_lines' =
          Append(Tail(next_lines),
                 get_line_color(page, lines_to_remove + 1 + NUM_EMPTY_LINES - 1))
    /\ UNCHANGED <<image, y, top, pages, page, next_slopes_left, next_slopes_right,
                   pc, caller, run, slabs, trimmed, led, trailed, pageTops, preImage, first>>
    /\ UNCHANGED <<chapter, probe, apps>>

\* return page.crop((0, lines_to_remove, page.width, page.height))
LeadingReturn ==
    /\ pc = "leading"
    /\ ~LeadingContinues
    /\ page' = Crop(page, lines_to_remove, ImgHeight(page))
    /\ led' = lines_to_remove
    /\ pc' = IF caller = "mirror" THEN "mirrored" ELSE "trailing_enter"
    /\ UNCHANGED <<image, y, top, pages, locals, caller, run, slabs, trimmed, trailed,
                   pageTops, preImage, first>>
    /\ UNCHANGED <<chapter, probe, apps>>

\* remove_trailing_white_space(page): lines_to_remove = 0 and the first window
TrailingEnter ==
    /\ pc = "trailing_enter"
    /\ lines_to_remove' = 0
    /\ next_lines' =
          [i \in 1..NUM_EMPTY_LINES |-> get_line_color(page, ImgHeight(page) - (i - 1) - 1)]
    /\ pc' = "trailing"
    /\ UNCHANGED <<image, y, top, pages, page, next_slopes_left, next_slopes_right,
                   caller, run, slabs, trimmed, led, trailed, pageTops, preImage, first>>
    /\ UNCHANGED <<chapter, probe, apps>>

TrailingContinues ==
    /\ lines_to_remove < ImgHeight(page)
    /\ are_percent_of_lines_black_or_white(next_lines, 1, 2)

\* TrailingAdvance with the window moved up one row too few: the row appended
\* is page.height - lines_to_remove - NUM_EMPTY_LINES + 1
TrailingAdvanceOffByOne ==
    /\ pc = "trailing"
    /\ TrailingContinues
    /\ lines_to_remove' = lines_to_remove + 1
    /\ next_lines' =
          Append(Tail(next_lines),
                 get_line_color(page, ImgHeight(page) - (lines_to_remove + 1)
                                        - NUM_EMPTY_LINES + 1))
    /\ UNCHANGED <<image, y, top, pages, page, next_slopes_left, next_slopes_right,
                   pc, caller, run, slabs, trimmed, led, trailed, pageTops, preImage, first>>
    /\ UNCHANGED <<chapter, probe, apps>>

TrailingAdvance ==
    /\ pc = "trailing"
    /\ TrailingContinues
    /\ lines_to_remove' = lines_to_remove + 1
    /\ next_lines' =
          Append(Tail(next_lines),
                 get_line_color(page, ImgHeight(page) - (lines_to_remove + 1)
                                        - NUM_EMPTY_LINES))
    /\ UNCHANGED <<image, y, top, pages, page, next_slopes_left, next_slopes_right,
                   pc, caller, run, slabs, trimmed, led, trailed, pageTops, preImage, first>>
    /\ UNCHANGED <<chapter, probe, apps>>

\* return page.crop((0, 0, page.width, page.height - lines_to_remove))
TrailingReturn ==
    /\ pc = "trailing"
    /\ ~TrailingContinues
    /\ page' = Crop(page, 0, ImgHeight(page) - lines_to_remove)
    /\ trailed' = lines_to_remove
    /\ pc' = IF caller = "mirror" THEN "flip" ELSE "emit"
    /\ UNCHANGED <<image, y, top, pages, locals, caller, run, slabs, trimmed, led,
                   pageTops, preImage, first>>
    /\ UNCHANGED <<chapter, probe, apps>>

\* Emit without the minimum height test: every trimmed page is appended
EmitKeepAll ==
    /\ pc = "emit"
    /\ trimmed' = Append(trimmed, ImgHeight(page))
    /\ pages' = Append(pages, page)
    /\ pageTops' = Append(pageTops, top + led)
    /\ pc' = IF caller = "split" THEN "loop" ELSE "emitted"
    /\ UNCHANGED <<image, y, top, page, locals, caller, run, slabs, led, trailed, preImage,
                   first>>
    /\ UNCHANGED <<chapter, probe, apps>>

\* Emit putting the new page at the front of the list
EmitPrepend ==
    /\ pc = "emit"
    /\ trimmed' = Append(trimmed, ImgHeight(page))
    /\ IF ImgHeight(page) < MinPageHeight
       THEN UNCHANGED <<pages, pageTops>>
       ELSE /\ pages' = <<page>> \o pages
            /\ pageTops' = <<top + led>> \o pageTops
    /\ pc' = IF caller = "split" THEN "loop" ELSE "emitted"
    /\ UNCHANGED <<image, y, top, page, locals, caller, run, slabs, led, trailed, preImage,
                   first>>
    /\ UNCHANGED <<chapter, probe, apps>>

\* if page.height < 10: continue; pages.append(page)
Emit ==
    /\ pc = "emit"
    /\ trimmed' = Append(trimmed, ImgHeight(page))
    /\ IF ImgHeight(page) < MinPageHeight
       THEN UNCHANGED <<pages, pageTops>>
       ELSE /\ pages' = Append(pages, page)
            /\ pageTops' = Append(pageTops, top + led)
    /\ pc' = IF caller = "split" THEN "loop" ELSE "emitted"
    /\ UNCHANGED <<image, y, top, page, locals, caller, run, slabs, led, trailed, preImage,
                   first>>
    /\ UNCHANGED <<chapter, probe, apps>>

\* ------------------------------------------------------------------------
\* split_image_into_pages
\* ------------------------------------------------------------------------
InitOn(inputs) ==
    /\ \E in \in inputs : image = MkImage(in.height, in.feats)
    /\ y = 0
    /\ top = 0
    /\ pages = <<>>
    /\ page = <<>>
    /\ next_lines = <<>>
    /\ next_slopes_left = <<>>
    /\ next_slopes_right = <<>>
    /\ lines_to_remove = 0
    /\ pc = "loop"
    /\ caller = "split"
    /\ run = 1
    /\ slabs = <<>>
    /\ trimmed = <<>>
    /\ led = 0
    /\ trailed = 0
    /\ pageTops = <<>>
    /\ preImage = image
    /\ first = NoRun
    /\ NoChapter
    /\ NoProbe
    /\ NoApps

Init == InitOn(Inputs)

\* while y < height: top = y; y = Manga.find_cut(image, y)
SplitFindCut ==
    /\ pc = "loop"
    /\ y < Height
    /\ top' = y
    /\ FindCutEnter(y)
    /\ UNCHANGED <<image, pages, page, lines_to_remove, caller, run, slabs, trimmed,
                   led, trailed, pageTops, first>>
    /\ UNCHANGED <<chapter, probe, apps>>

\* page = image.crop((0, top, width, y)), then the call of the first trimmer
SplitCrop ==
    /\ pc = "crop"
    /\ page' = Crop(image, top, y)
    /\ pc' = "leading_enter"
    /\ UNCHANGED <<image, y, top, pages, locals, caller, run, slabs, trimmed, led, trailed,
                   pageTops, preImage, first>>
    /\ UNCHANGED <<chapter, probe, apps>>

\* while y < height fails: return pages
SplitReturn ==
    /\ pc = "loop"
    /\ ~(y < Height)
    /\ pc' = "done"
    /\ UNCHANGED <<image, y, top, pages, page, locals, caller, run, slabs, trimmed,
                   led, trailed, pageTops, preImage, first>>
    /\ UNCHANGED <<chapter, probe, apps>>

\* SplitAgain with a page list that survives from the previous call
SplitAgainKeepPages ==
    /\ pc = "done"
    /\ run = 1
    /\ first' = [slabs |-> slabs, pages |-> pages, pageTops |-> pageTops]
    /\ run' = 2
    /\ y' = 0
    /\ slabs' = <<>>
    /\ trimmed' = <<>>
    /\ pc' = "loop"
    /\ UNCHANGED <<image, top, page, locals, caller, led, trailed, preImage, pages, pageTops>>
    /\ UNCHANGED <<chapter, probe, apps>>

\* split_image_into_pages is called again on the raster the first call left:
\* pages = []; y = 0
SplitAgain ==
    /\ pc = "done"
    /\ run = 1
    /\ first' = [slabs |-> slabs, pages |-> pages, pageTops |-> pageTops]
    /\ run' = 2
    /\ pages' = <<>>
    /\ y' = 0
    /\ slabs' = <<>>
    /\ trimmed' = <<>>
    /\ pageTops' = <<>>
    /\ pc' = "loop"
    /\ UNCHANGED <<image, top, page, locals, caller, led, trailed, preImage>>
    /\ UNCHANGED <<chapter, probe, apps>>

Next ==
    \/ SplitFindCut
    \/ FindCutAdvance
    \/ FindCutReturn
    \/ SplitCrop
    \/ LeadingEnter
    \/ LeadingAdvance
    \/ LeadingReturn
    \/ TrailingEnter
    \/ TrailingAdvance
    \/ TrailingReturn
    \/ Emit
    \/ SplitReturn
    \/ SplitAgain

Spec == Init /\ [][Next]_vars

\* ------------------------------------------------------------------------
\* Properties of split_image_into_pages
\* ------------------------------------------------------------------------
Finished == pc = "done"

\* C1 (coverage): the untrimmed slabs [top_i, cut_i) of successive find_cut
\* calls partition [0, height): the first starts at 0, each starts where the
\* previous one ended, none is reversed, and when the loop has ended the last
\* one ends at height.
C1_SlabsPartition ==
    /\ \A i \in 1..Len(slabs) : slabs[i].top <= slabs[i].cut /\ slabs[i].cut <= Height
    /\ Len(slabs) > 0 => slabs[1].top = 0
    /\ \A i \in 1..(Len(slabs) - 1) : slabs[i + 1].top = slabs[i].cut
    /\ Finished => IF Len(slabs) = 0
                   THEN Height = 0
                   ELSE slabs[Len(slabs)].cut = Height

C1_Witness == Finished /\ Len(slabs) >= 3

\* C2 (minimum height): every page in the list has at least 10 rows after
\* trimming; a slab trimmed to fewer than 10 rows is not in the list.
C2_MinimumHeight ==
    /\ \A i \in 1..Len(pages) : ImgHeight(pages[i]) >= 10
    /\ Len(pages) = Cardinality({ i \in 1..Len(trimmed) : trimmed[i] >= 10 })

C2_Witness ==
    /\ Finished
    /\ Len(pages) >= 1
    /\ \E i \in 1..Len(trimmed) : trimmed[i] >= 1 /\ trimmed[i] < 10

\* C3 (monotonic ordering): the rows of the raster at which adjacent pages of
\* the list start are strictly increasing, where page i is the rows of the
\* raster from pageTops[i] on.
C3_MonotonicOrdering ==
    /\ Len(pageTops) = Len(pages)
    /\ \A i \in 1..Len(pages) :
          pages[i] = Crop(image, pageTops[i], pageTops[i] + ImgHeight(pages[i]))
    /\ \A i \in 1..(Len(pageTops) - 1) : pageTops[i] < pageTops[i + 1]

C3_Witness == Finished /\ Len(pages) >= 3

Cuts(ss) == [i \in 1..Len(ss) |-> <<ss[i].top, ss[i].cut>>]

SecondFinished == run = 2 /\ Finished

\* C4 as claimed (idempotence): a second run on the raster the first run left
\* yields the same cut boundaries and the same pages.
C4_Idempotent ==
    SecondFinished => Cuts(slabs) = Cuts(first.slabs) /\ pages = first.pages

Healed(slab) == slab.stop \in {"left", "right"}

\* Row of the raster up to which the first run cut without healing: the top
\* of its first slab that ended with a slope heal, the height if none did.
UnhealedUpTo ==
    IF \E i \in 1..Len(first.slabs) : Healed(first.slabs[i])
    THEN first.slabs[CHOOSE i \in 1..Len(first.slabs) :
                        /\ Healed(first.slabs[i])
                        /\ \A j \in 1..(i - 1) : ~Healed(first.slabs[j])].top
    ELSE Height

Before(tops, row) == { i \in 1..Len(tops) : tops[i] < row }

\* C4 amended: the second run repeats every slab and every page of the first
\* run that lies above the first slab the first run ended with a slope heal
\* (all of them when the first run healed nothing).
C4_IdempotentUntilHeal ==
    SecondFinished =>
        /\ \A i \in 1..Len(first.slabs) :
              first.slabs[i].cut <= UnhealedUpTo =>
                  /\ i <= Len(slabs)
                  /\ Cuts(slabs)[i] = Cuts(first.slabs)[i]
        /\ Before(pageTops, UnhealedUpTo) = Before(first.pageTops, UnhealedUpTo)
        /\ \A i \in Before(first.pageTops, UnhealedUpTo) :
              pages[i] = first.pages[i] /\ pageTops[i] = first.pageTops[i]

\* a second run has finished after a first run that healed below an earlier
\* cut and produced a page above it
C4_Witness ==
    /\ SecondFinished
    /\ UnhealedUpTo > 0 /\ UnhealedUpTo < Height
    /\ Before(first.pageTops, UnhealedUpTo) # {}

\* ------------------------------------------------------------------------
\* find_cut on its own: any raster, any starting row below its height
\* ------------------------------------------------------------------------
\* Starting rows: the top, rows whose scan begins at the last row and at the
\* height, the row below a first cut, the last row.
CutStarts(height) ==
    {0, 1, height - M - 1, height - M, M + 3, height - 1} \cap (0..(height - 1))

InitCut ==
    /\ \E in \in Inputs :
          /\ image = MkImage(in.height, in.feats)
          /\ y \in CutStarts(in.height)
    /\ top = y
    /\ pages = <<>>
    /\ page = <<>>
    /\ next_lines = <<>>
    /\ next_slopes_left = <<>>
    /\ next_slopes_right = <<>>
    /\ lines_to_remove = 0
    /\ pc = "call"
    /\ caller = "find_cut"
    /\ run = 1
    /\ slabs = <<>>
    /\ trimmed = <<>>
    /\ led = 0
    /\ trailed = 0
    /\ pageTops = <<>>
    /\ preImage = image
    /\ first = NoRun
    /\ NoChapter
    /\ NoProbe
    /\ NoApps

\* Manga.find_cut(image, y)
FindCutCall ==
    /\ pc = "call"
    /\ FindCutEnter(y)
    /\ UNCHANGED <<image, top, pages, page, lines_to_remove, caller, run, slabs,
                   trimmed, led, trailed, pageTops, first>>
    /\ UNCHANGED <<chapter, probe, apps>>

NextCut == FindCutCall \/ FindCutAdvance \/ FindCutReturn

SpecCut == InitCut /\ [][NextCut]_vars

\* The three windows of samples find_cut holds when its scan is at row r.
LineWindow(img, r) ==
    [i \in 1..NUM_EMPTY_LINES |-> get_line_color(img, r + i - 1)]

LeftWindow(img, r) ==
    [i \in 1..NUM_EMPTY_SLOPES |->
        get_slope_color(img, r + i - 1, -SLOPE_THRESHOLD, SLOPE_THRESHOLD)]

RightWindow(img, r) ==
    [i \in 1..NUM_EMPTY_SLOPES |->
        get_slope_color(img, r + i - 1, SLOPE_THRESHOLD, -SLOPE_THRESHOLD)]

ScanStart(img, y0) == Min(y0 + 400, ImgHeight(img))

\* The rows of find_cut(img, y0)'s scan at which each window passes the cut
\* test, from the samples of all rows the scan can look at.
Qualifying(img, y0) ==
    LET lo == ScanStart(img, y0)
        hi == ImgHeight(img) - 1
        lines == [r \in lo..(hi + NUM_EMPTY_LINES) |-> get_line_color(img, r)]
        lefts == [r \in lo..(hi + NUM_EMPTY_SLOPES) |->
                    get_slope_color(img, r, -SLOPE_THRESHOLD, SLOPE_THRESHOLD)]
        rights == [r \in lo..(hi + NUM_EMPTY_SLOPES) |->
                    get_slope_color(img, r, SLOPE_THRESHOLD, -SLOPE_THRESHOLD)]
        Passes(samples, r, n) ==
            are_all_lines_black_or_white([i \in 1..n |-> samples[r + i - 1]])
    IN  [line |-> { r \in lo..hi : Passes(lines, r, NUM_EMPTY_LINES) },
         left |-> { r \in lo..hi : Passes(lefts, r, NUM_EMPTY_SLOPES) },
         right |-> { r \in lo..hi : Passes(rights, r, NUM_EMPTY_SLOPES) }]

AnyRows(q) == q.line \cup q.left \cup q.right

Returned == pc = "returned"

\* C5 (minimum slab height): find_cut(image, y) with y < height returns r
\* with min(y + 400, height) <= r <= height, so the slab [y, r) has at least
\* 400 rows unless it ends at the height (the last slab).
C5_MinimumSlabHeight ==
    Returned =>
        /\ ScanStart(preImage, top) <= y
        /\ y <= ImgHeight(preImage)
        /\ y < ImgHeight(preImage) => y - top >= 400

\* a cut strictly inside the raster, found after scanning past y + 400
C5_Witness ==
    Returned /\ y < Height /\ y > top + 400 /\ top > 0

\* C6 (no boundary found): when no row window and no slope window passes the
\* cut test at any row from min(y + 400, height) up to the height,
\* find_cut(image, y) returns the height and leaves the image as it was, and
\* the slab split_image_into_pages then crops is [y, height), its last one
\* (the loop condition y < height no longer holds).
C6_NoBoundary ==
    (pc = "crop" /\ AnyRows(Qualifying(preImage, top)) = {}) =>
        /\ y = ImgHeight(preImage)
        /\ image = preImage
        /\ slabs[Len(slabs)].top = top
        /\ slabs[Len(slabs)].cut = Height
        /\ ~(y < Height)

\* a raster cut once, whose remainder below the cut is scanned without any
\* window passing
C6_Witness ==
    /\ pc = "crop"
    /\ top > 0
    /\ ScanStart(preImage, top) < Height
    /\ AnyRows(Qualifying(preImage, top)) = {}

Stop == slabs[Len(slabs)].stop

\* The pixels of rows [r, r + 50) and columns [x_from, x_to) that exist
HealedArea(img, r, x_from, x_to) ==
    { <<x, yy>> \in (x_from..(x_to - 1)) \X (r..(r + 49)) : yy < ImgHeight(img) }

\* C7 (first qualifying condition wins): find_cut returns the smallest row
\* from min(y + 400, height) on at which one of the three windows passes the
\* cut test; when at that row the left-slope window passes and the row
\* window does not, the right half of the 50 rows from there is painted with
\* one colour of the left-slope window, whatever row windows pass further down.
C7_FirstQualifyingWins ==
    Returned =>
        LET q == Qualifying(preImage, top)
            half == ImgWidth(preImage) \div 2
        IN  AnyRows(q) # {} =>
               /\ y = Minimum(AnyRows(q))
               /\ (y \in q.left /\ y \notin q.line) =>
                     \E i \in 1..NUM_EMPTY_SLOPES :
                        \A p \in HealedArea(image, y, half, ImgWidth(image)) :
                           getpixel(image, p[1], p[2]) = LeftWindow(preImage, y)[i]

\* a left-slope cut taken although a row window passes further down
C7_Witness ==
    /\ Returned
    /\ Stop = "left"
    /\ \E r \in Qualifying(preImage, top).line : r > y
    /\ image # preImage

\* C8 (tie-break): when the row window and a slope window both pass at the
\* row where the scan stops, find_cut takes the horizontal cut: it returns
\* that row and writes nothing to the image.
C8_TieBreak ==
    Returned =>
        LET q == Qualifying(preImage, top)
        IN  (AnyRows(q) # {} /\ Minimum(AnyRows(q)) \in q.line \cap (q.left \cup q.right)) =>
               /\ y = Minimum(AnyRows(q))
               /\ Stop = "line"
               /\ image = preImage

\* the row and left-slope windows pass at the same row, where a heal would
\* have changed pixels
C8_Witness ==
    /\ Returned
    /\ y \in Qualifying(preImage, top).line \cap Qualifying(preImage, top).left
    /\ Heal(preImage, y, ImgWidth(preImage) \div 2, ImgWidth(preImage),
            LeftWindow(preImage, y)[(NUM_EMPTY_LINES \div 2) + 1]) # preImage

\* The window find_cut stopped on.
StopWindow ==
    CASE Stop = "line" -> LineWindow(preImage, y)
      [] Stop = "left" -> LeftWindow(preImage, y)
      [] Stop = "right" -> RightWindow(preImage, y)

AllDefinedBlackOrWhite(w) ==
    \A i \in 1..Len(w) : w[i] # None /\ is_pixel_black_or_white(w[i])

MutuallySimilar(w) ==
    \A i, j \in 1..Len(w) : is_pixel_similar(w[i], w[j], 5)

NumBlackOrWhite(w) ==
    Cardinality({ i \in 1..Len(w) : w[i] # None /\ is_pixel_black_or_white(w[i]) })

Painted(before, r, x_from, x_to, color) ==
    [row \in 1..ImgHeight(before) |->
        [col \in 1..ImgWidth(before) |->
            IF /\ row - 1 >= r
               /\ row - 1 < Min(r + 50, ImgHeight(before))
               /\ col - 1 >= x_from
               /\ col - 1 < x_to
            THEN color
            ELSE before[row][col]]]

\* C16 (healing frame): find_cut changes the image only when it stops on a
\* slope window at row r; then the image is the one before the call with the
\* pixels of rows [r, min(r + 50, height)) of the right half (x >= width // 2,
\* left-slope stop) or of the left half (x < width // 2, right-slope stop)
\* set to one colour of the slope window that passed. A horizontal cut and a
\* scan that reaches the height change no pixel.
C16_HealingFrame ==
    Returned =>
        LET width == ImgWidth(preImage)
            half == width \div 2
        IN  /\ Stop \in {"line", "height"} => image = preImage
            /\ Stop = "left" =>
                  \E i \in 1..NUM_EMPTY_SLOPES :
                     image = Painted(preImage, y, half, width, LeftWindow(preImage, y)[i])
            /\ Stop = "right" =>
                  \E i \in 1..NUM_EMPTY_SLOPES :
                     image = Painted(preImage, y, 0, half, RightWindow(preImage, y)[i])

\* a right-slope stop less than 50 rows above the last row, which changed pixels
C16_Witness ==
    /\ Returned
    /\ Stop = "right"
    /\ y + SLOPE_THRESHOLD > Height
    /\ image # preImage

\* ------------------------------------------------------------------------
\* The trimmers on their own: any page, then the minimum height test
\* ------------------------------------------------------------------------
RowOf(color) == [c \in 1..Width |-> color]

ContentRow == [c \in 1..Width |-> ContentPixel(c - 1)]

RowKinds == {RowOf(White), RowOf(NearBlack), RowOf(Gray), ContentRow}

BlankRowKinds == {RowOf(White), RowOf(NearBlack)}

\* A block of content rows with blank rows above and below it
Padded(above, content, below, blank) ==
    [r \in 1..(above + content + below) |->
        IF r > above /\ r <= above + content THEN ContentRow ELSE blank]

PaddedPages ==
    { Padded(above, content, below, blank) :
        above \in 0..MaxPageHeight, below \in 0..MaxPageHeight,
        content \in {3, MinPageHeight + 2}, blank \in BlankRowKinds }

\* Pages of every mix of rows up to MaxPageHeight, padded blocks of content,
\* and taller pages of blank rows around the minimum page height.
TrimPages ==
    UNION { [1..h -> RowKinds] : h \in 1..MaxPageHeight }
    \cup PaddedPages
    \cup UNION { { [r \in 1..h |-> IF r % 2 = 0 THEN even ELSE odd] :
                     even \in BlankRowKinds, odd \in BlankRowKinds } :
                 h \in (MaxPageHeight + 1)..(MaxPageHeight + 2 * MinPageHeight) }

InitTrim ==
    /\ page \in TrimPages
    /\ preImage = page
    /\ image = <<>>
    /\ y = 0
    /\ top = 0
    /\ pages = <<>>
    /\ next_lines = <<>>
    /\ next_slopes_left = <<>>
    /\ next_slopes_right = <<>>
    /\ lines_to_remove = 0
    /\ pc = "leading_enter"
    /\ caller = "trim"
    /\ run = 1
    /\ slabs = <<>>
    /\ trimmed = <<>>
    /\ led = 0
    /\ trailed = 0
    /\ pageTops = <<>>
    /\ first = NoRun
    /\ NoChapter
    /\ NoProbe
    /\ NoApps

NextTrim ==
    \/ LeadingEnter
    \/ LeadingAdvance
    \/ LeadingReturn
    \/ TrailingEnter
    \/ TrailingAdvance
    \/ TrailingReturn
    \/ Emit

SpecTrim == InitTrim /\ [][NextTrim]_vars

\* Every row of the page is uniform and near-black or near-white.
AllRowsBlank(pg) ==
    \A r \in 0..(ImgHeight(pg) - 1) :
        get_line_color(pg, r) # None /\ is_pixel_black_or_white(get_line_color(pg, r))

\* C10 (trim correctness): a page of one or more rows that are all uniform
\* near-black or near-white is reduced to height 0 by the two trimmers, and
\* is not appended to the page list.
C10_BlankPageTrimmedAway ==
    (pc \in {"emit", "emitted"} /\ AllRowsBlank(preImage)) =>
        /\ ImgHeight(page) = 0
        /\ pages = <<>>

\* A row of the page that line_color classifies as uniform and black-or-white
BlankRow(pg, r) ==
    get_line_color(pg, r) # None /\ is_pixel_black_or_white(get_line_color(pg, r))

\* The rows of the page handed to the trimmers that the two trimmers cropped
\* away: the first `led` rows and the last `trailed` rows.
RemovedRows ==
    (0..(led - 1))
    \cup ((ImgHeight(preImage) - trailed)..(ImgHeight(preImage) - 1))

\* C11 (trimming removes only padding): every row that
\* remove_leading_white_space or remove_trailing_white_space crops away from
\* a page is uniform and black-or-white; a row with content is never removed.
C11_OnlyPaddingRemoved ==
    pc \in {"emit", "emitted"} =>
        \A r \in RemovedRows : BlankRow(preImage, r)

\* ------------------------------------------------------------------------
\* The single band scenario
\* ------------------------------------------------------------------------
\* The sequence of the n samples Sample(1), ..., Sample(n)
Samples(n, Sample(_)) == [k \in 1..n |-> Sample(k)] \o << >>

\* find_cut(image, y0) as one step: the scan stops at the first row from its
\* start at which the loop is left, where its windows hold the samples of
\* the 5 rows and the 20 slopes from that row on. The result is the row
\* returned, the way the loop was left, and the image after the healing.
find_cut(img, y0) ==
    LET height == ImgHeight(img)
        width == ImgWidth(img)
        start == find_cut_start(y0, height)
        \* the samples of rows start, start + 1, ... that the scan can read
        lines == Samples(height + NUM_EMPTY_LINES - start,
                         LAMBDA k : get_line_color(img, start + k - 1))
        lefts == Samples(height + NUM_EMPTY_SLOPES - start,
                         LAMBDA k : get_slope_color(img, start + k - 1,
                                                    -SLOPE_THRESHOLD, SLOPE_THRESHOLD))
        rights == Samples(height + NUM_EMPTY_SLOPES - start,
                          LAMBDA k : get_slope_color(img, start + k - 1,
                                                     SLOPE_THRESHOLD, -SLOPE_THRESHOLD))
        Lines(r) == SubSeq(lines, r - start + 1, r - start + NUM_EMPTY_LINES)
        Lefts(r) == SubSeq(lefts, r - start + 1, r - start + NUM_EMPTY_SLOPES)
        Rights(r) == SubSeq(rights, r - start + 1, r - start + NUM_EMPTY_SLOPES)
        Exit(r) == find_cut_exit(r, height, Lines(r), Lefts(r), Rights(r))
        cut == Minimum({ r \in start..height : Exit(r) # "continue" })
        stop == Exit(cut)
    IN  [y |-> cut,
         stop |-> stop,
         image |->
            CASE stop = "left" ->
                   Heal(img, cut, width \div 2, width,
                        Lefts(cut)[(NUM_EMPTY_LINES \div 2) + 1])
              [] stop = "right" ->
                   Heal(img, cut, 0, width \div 2,
                        Rights(cut)[(NUM_EMPTY_LINES \div 2) + 1])
              [] OTHER -> img]

\* remove_leading_white_space(page) as one step: lines_to_remove is the
\* first count at which the loop is left.
remove_leading_white_space(pg) ==
    LET height == ImgHeight(pg)
        \* the samples of rows 0, 1, ...
        lines == Samples(height + NUM_EMPTY_LINES,
                         LAMBDA k : get_line_color(pg, k - 1))
        Continues(l) ==
            /\ l < height
            /\ are_percent_of_lines_black_or_white(
                  SubSeq(lines, l + 1, l + NUM_EMPTY_LINES), 1, 2)
        remove == Minimum({ l \in 0..height : ~Continues(l) })
    IN  [lines_to_remove |-> remove, page |-> Crop(pg, remove, height)]

\* remove_trailing_white_space(page) as one step
remove_trailing_white_space(pg) ==
    LET height == ImgHeight(pg)
        \* the samples of rows height - 1, height - 2, ...
        lines == Samples(height + NUM_EMPTY_LINES,
                         LAMBDA k : get_line_color(pg, height - k))
        Continues(l) ==
            /\ l < height
            /\ are_percent_of_lines_black_or_white(
                  SubSeq(lines, l + 1, l + NUM_EMPTY_LINES), 1, 2)
        remove == Minimum({ l \in 0..height : ~Continues(l) })
    IN  [lines_to_remove |-> remove, page |-> Crop(pg, 0, height - remove)]

\* One iteration of the loop of split_image_into_pages as one step:
\* top = y; y = find_cut(image, y); crop; the two trimmers; the height test.
SplitIteration ==
    /\ pc = "loop"
    /\ y < Height
    /\ \E cut \in {find_cut(image, y)} :
       \E leading \in {remove_leading_white_space(Crop(cut.image, y, cut.y))} :
       \E trailing \in {remove_trailing_white_space(leading.page)} :
           /\ top' = y
           /\ y' = cut.y
           /\ image' = cut.image
           /\ slabs' = Append(slabs, [top |-> y, cut |-> cut.y, stop |-> cut.stop])
           /\ page' = trailing.page
           /\ led' = leading.lines_to_remove
           /\ trailed' = trailing.lines_to_remove
           /\ trimmed' = Append(trimmed, ImgHeight(trailing.page))
           /\ IF ImgHeight(trailing.page) < MinPageHeight
              THEN UNCHANGED <<pages, pageTops>>
              ELSE /\ pages' = Append(pages, trailing.page)
                   /\ pageTops' = Append(pageTops, y + leading.lines_to_remove)
    /\ preImage' = image
    /\ UNCHANGED <<locals, pc, caller, run, first>>
    /\ UNCHANGED <<chapter, probe, apps>>

InitBand == InitOn(ScenarioInputs \cup Inputs)

NextBand == SplitIteration \/ SplitReturn

SpecBand == InitBand /\ [][NextBand]_vars

\* The raster is the one of the scenario: it is the only input of 3000 rows,
\* and no window of slope samples qualifies on it, so it is never healed.
InBandScenario == Height = BandScenario.height

\* C12 (single band scenario): on the raster of 3000 rows whose only blank
\* rows are the flat white rows 1000..1010, find_cut(image, 0) returns a row
\* of the band within the 5-row window of row 1004, and
\* split_image_into_pages yields exactly two pages: the rows above the
\* boundary, and one page cut from the remainder that ends at the last row.
C12_SingleBand ==
    InBandScenario =>
        /\ Len(slabs) >= 1 =>
              /\ slabs[1].top = 0
              /\ slabs[1].cut \in 1000..1010
              /\ Abs(slabs[1].cut - 1004) < NUM_EMPTY_LINES
        /\ Finished =>
              /\ Len(slabs) = 2
              /\ Len(pages) = 2
              /\ pageTops[1] = 0
              /\ ImgHeight(pages[1]) = slabs[1].cut
              /\ pageTops[2] >= slabs[1].cut
              /\ pageTops[2] + ImgHeight(pages[2]) = Height

C12_Witness ==
    InBandScenario /\ Finished /\ Len(pages) = 2 /\ slabs[1].stop = "line"

\* ------------------------------------------------------------------------
\* File names of the chapter folder
\* ------------------------------------------------------------------------
\* A file name is the sequence of its characters.
Digits == <<"0", "1", "2", "3", "4", "5", "6", "7", "8", "9">>

\* The characters of the file names, in the order of their code points
Chars == <<".">> \o Digits
         \o <<"_", "a", "b", "c", "d", "e", "g", "i", "m", "n", "o", "p">>

ord(c) == CHOOSE k \in 1..Len(Chars) : Chars[k] = c

\* str(n) of an f-string: the decimal digits of n
RECURSIVE str(_)
str(n) == IF n < 10 THEN <<Digits[n + 1]>>
          ELSE str(n \div 10) \o <<Digits[(n % 10) + 1]>>

\* int(s) of a string of decimal digits
RECURSIVE int(_)
int(s) ==
    LET digit == (CHOOSE k \in 1..10 : Digits[k] = s[Len(s)]) - 1
    IN  IF Len(s) = 1 THEN digit ELSE 10 * int(SubSeq(s, 1, Len(s) - 1)) + digit

\* f'page_{i}.png'
page_name(i) == <<"p", "a", "g", "e", "_">> \o str(i) \o <<".", "p", "n", "g">>

\* 'combined.png'
combined_name == <<"c", "o", "m", "b", "i", "n", "e", "d", ".", "p", "n", "g">>

\* the last position of character c in s, 0 when there is none
LastIndex(s, c) ==
    IF \E k \in 1..Len(s) : s[k] = c
    THEN CHOOSE k \in 1..Len(s) : s[k] = c /\ \A j \in (k + 1)..Len(s) : s[j] # c
    ELSE 0

\* Path.stem: the name without its last suffix
stem(name) ==
    IF LastIndex(name, ".") > 1 THEN SubSeq(name, 1, LastIndex(name, ".") - 1)
    ELSE name

\* chapter_folder.glob('page_*.png'): names that begin with page_ and end with .png
glob(names) ==
    { name \in names :
        /\ Len(name) >= 9
        /\ SubSeq(name, 1, 5) = <<"p", "a", "g", "e", "_">>
        /\ SubSeq(name, Len(name) - 3, Len(name)) = <<".", "p", "n", "g">> }

\* the order of strings: by code point, a proper prefix first
name_less(a, b) ==
    \E k \in 1..(Len(b)) :
        /\ \A j \in 1..(k - 1) : j <= Len(a) /\ a[j] = b[j]
        /\ \/ k = Len(a) + 1
           \/ k <= Len(a) /\ ord(a[k]) < ord(b[k])

\* key=lambda p: int(p.stem.split('_')[-1])
sort_key(name) == int(SubSeq(stem(name), LastIndex(stem(name), "_") + 1, Len(stem(name))))

\* the paths in the order of their names
sort_by_name(paths) ==
    [k \in 1..Cardinality(paths) |->
        CHOOSE a \in paths : Cardinality({ b \in paths : name_less(b, a) }) = k - 1]

\* paths.sort(key=...): the paths in ascending order of their keys (the keys
\* of the files of one folder differ, so the order glob listed them in has
\* no part in the result)
sort_by_key(paths) ==
    [k \in 1..Cardinality(paths) |->
        CHOOSE a \in paths :
            Cardinality({ b \in paths : sort_key(b) < sort_key(a) }) = k - 1]

\* ------------------------------------------------------------------------
\* process_images_from_chapter, run by several processes on one chapter
\* ------------------------------------------------------------------------
\* Bounds: the strips of the chapter, the pages of the chapter
MaxStrips == 2

MaxPages == 11

\* The viewer's own process and the process it starts in the background
Procs == {"viewer", "background"}

Idle == [pc |-> "idle", images |-> 0, pages |-> <<>>, i |-> 0, result |-> <<>>,
         raised |-> "", loaded |-> FALSE, afterSave |-> FALSE]

InitChapter ==
    /\ strips \in 0..MaxStrips
    /\ chapterPages \in { [k \in 1..n |-> k] : n \in 0..MaxPages }
    /\ strips = 0 => chapterPages = <<>>
    /\ folder = FALSE
    /\ files = <<>>
    /\ procs = [p \in Procs |-> Idle]
    /\ saved = FALSE
    /\ image = <<>>
    /\ y = 0
    /\ top = 0
    /\ pages = <<>>
    /\ page = <<>>
    /\ next_lines = <<>>
    /\ next_slopes_left = <<>>
    /\ next_slopes_right = <<>>
    /\ lines_to_remove = 0
    /\ pc = "chapter"
    /\ caller = "chapter"
    /\ run = 1
    /\ slabs = <<>>
    /\ trimmed = <<>>
    /\ led = 0
    /\ trailed = 0
    /\ pageTops = <<>>
    /\ preImage = <<>>
    /\ first = NoRun
    /\ NoProbe
    /\ NoApps

\* the file `name` is written with `content`
Write(name, content) ==
    [n \in DOMAIN files \cup {name} |-> IF n = name THEN content ELSE files[n]]

\* process p takes the step that moves it to `next`
Step(p, next) ==
    /\ procs' = [procs EXCEPT ![p] = next]
    /\ UNCHANGED <<segmentation, probe, apps>>

\* a process calls process_images_from_chapter(chapter)
Call(p) ==
    /\ procs[p].pc = "idle"
    /\ Step(p, [Idle EXCEPT !.pc = "exists", !.afterSave = saved])
    /\ UNCHANGED <<strips, chapterPages, folder, files, saved>>

\* if chapter_folder.exists():
Exists(p) ==
    /\ procs[p].pc = "exists"
    /\ Step(p, [procs[p] EXCEPT !.pc = IF folder THEN "load" ELSE "fetch"])
    /\ UNCHANGED <<strips, chapterPages, folder, files, saved>>

\* paths = glob('page_*.png'); paths.sort(key=...); return [Image.open(path) ...]
Load(p) ==
    /\ procs[p].pc = "load"
    /\ LET paths == sort_by_key(glob(DOMAIN files))
       IN  Step(p, [procs[p] EXCEPT !.pc = "returned",
                                    !.result = [k \in 1..Len(paths) |-> files[paths[k]]],
                                    !.loaded = TRUE])
    /\ UNCHANGED <<strips, chapterPages, folder, files, saved>>

\* images = self.fetch_all_images(chapter), or the exception fetch raises
Fetch(p) ==
    /\ procs[p].pc = "fetch"
    /\ \/ Step(p, [procs[p] EXCEPT !.pc = "combine", !.images = strips])
       \/ Step(p, [procs[p] EXCEPT !.pc = "error", !.raised = "RequestException"])
    /\ UNCHANGED <<strips, chapterPages, folder, files, saved>>

\* Combine for a chapter without strips: an empty raster instead of images[0]
CombineEmpty(p) ==
    /\ procs[p].pc = "combine"
    /\ Step(p, [procs[p] EXCEPT !.pc = "split"])
    /\ UNCHANGED <<strips, chapterPages, folder, files, saved>>

\* combined_images = Image.new('RGB', (images[0].width, total_height)) and
\* the pastes; images[0] raises IndexError when there is no image
Combine(p) ==
    /\ procs[p].pc = "combine"
    /\ IF procs[p].images = 0
       THEN Step(p, [procs[p] EXCEPT !.pc = "error", !.raised = "IndexError"])
       ELSE Step(p, [procs[p] EXCEPT !.pc = "split"])
    /\ UNCHANGED <<strips, chapterPages, folder, files, saved>>

\* pages = Manga.split_image_into_pages(combined_images)
Split(p) ==
    /\ procs[p].pc = "split"
    /\ Step(p, [procs[p] EXCEPT !.pc = "mkdir", !.pages = chapterPages])
    /\ UNCHANGED <<strips, chapterPages, folder, files, saved>>

\* chapter_folder.mkdir(exist_ok=True, parents=True)
Mkdir(p) ==
    /\ procs[p].pc = "mkdir"
    /\ folder' = TRUE
    /\ Step(p, [procs[p] EXCEPT !.pc = "save_combined"])
    /\ UNCHANGED <<strips, chapterPages, files, saved>>

\* combined_images.save(chapter_folder / 'combined.png')
SaveCombined(p) ==
    /\ procs[p].pc = "save_combined"
    /\ files' = Write(combined_name, "combined")
    /\ Step(p, [procs[p] EXCEPT !.pc = "save_page", !.i = 0])
    /\ UNCHANGED <<strips, chapterPages, folder, saved>>

\* for i, page in enumerate(pages): page.save(chapter_folder / f'page_{i}.png')
SavePage(p) ==
    /\ procs[p].pc = "save_page"
    /\ procs[p].i < Len(procs[p].pages)
    /\ files' = Write(page_name(procs[p].i), procs[p].pages[procs[p].i + 1])
    /\ Step(p, [procs[p] EXCEPT !.i = procs[p].i + 1])
    /\ UNCHANGED <<strips, chapterPages, folder, saved>>

\* return pages
Return(p) ==
    /\ procs[p].pc = "save_page"
    /\ ~(procs[p].i < Len(procs[p].pages))
    /\ saved' = TRUE
    /\ Step(p, [procs[p] EXCEPT !.pc = "returned", !.result = procs[p].pages])
    /\ UNCHANGED <<strips, chapterPages, folder, files>>

\* the call is over (its pages returned, or its exception raised) and the
\* process is free for another call
Done(p) ==
    /\ procs[p].pc \in {"returned", "error"}
    /\ Step(p, Idle)
    /\ UNCHANGED <<strips, chapterPages, folder, files, saved>>

NextChapter ==
    \E p \in Procs :
        \/ Call(p)
        \/ Exists(p)
        \/ Load(p)
        \/ Fetch(p)
        \/ Combine(p)
        \/ Split(p)
        \/ Mkdir(p)
        \/ SaveCombined(p)
        \/ SavePage(p)
        \/ Return(p)
        \/ Done(p)

SpecChapter == InitChapter /\ [][NextChapter]_vars

\* C13 (round trip via storage): once a run has saved its N pages as
\* page_0 .. page_{N-1} and returned, every call made later for the chapter
\* goes from the test of the folder to the load (no fetch, no segmentation,
\* no error) and returns exactly the N pages, in the order of their numbers.
C13_RoundTrip ==
    \A p \in Procs :
        procs[p].afterSave =>
            /\ procs[p].pc \in {"exists", "load", "returned"}
            /\ procs[p].pc = "returned" =>
                  /\ procs[p].loaded
                  /\ procs[p].result = chapterPages

\* a later call has loaded a chapter that has a page_10 next to page_2
C13_Witness ==
    \E p \in Procs :
        /\ procs[p].afterSave
        /\ procs[p].pc = "returned"
        /\ Len(procs[p].result) >= 11
        /\ page_name(10) \in DOMAIN files

\* C14 (same-chapter concurrency): under any interleaving of two runs of
\* process_images_from_chapter for the same chapter, every call that returns
\* yields the complete page sequence of the chapter.
C14_EveryReturnComplete ==
    \A p \in Procs :
        procs[p].pc = "returned" => procs[p].result = chapterPages

\* C15 (empty chapter): when the chapter has no strip image, no call gets
\* past the assembly of the raster (it ends in an error there, it returns no
\* page list), and the chapter folder is never created.
C15_EmptyChapter ==
    strips = 0 =>
        /\ ~folder
        /\ DOMAIN files = {}
        /\ \A p \in Procs :
              /\ procs[p].pc \in {"idle", "exists", "fetch", "combine", "error"}
              /\ procs[p].pc = "error" =>
                    procs[p].raised \in {"IndexError", "RequestException"}

C15_Witness ==
    /\ strips = 0
    /\ \E p \in Procs : procs[p].pc = "error" /\ procs[p].raised = "IndexError"
    /\ ~folder

\* ------------------------------------------------------------------------
\* The probes on their own: any small image, any row, any pair of offsets
\* ------------------------------------------------------------------------
\* Bound: the height of the images probed
MaxSampleHeight == 3

\* A row with exactly MaxDissimilar pixels unlike its middle pixel
FiveOffRow ==
    [c \in 1..Width |->
        IF c - 1 < MaxDissimilar /\ c - 1 # Width \div 2 THEN Gray
        ELSE IF c - 1 = MaxDissimilar THEN Gray
        ELSE White]

SampleRows == {RowOf(White), ContentRow, FiveOffRow}

SampleImages == UNION { [1..h -> SampleRows] : h \in 1..MaxSampleHeight }

\* The offsets of find_cut, and offsets of flat and of short slopes whose
\* middle is on, above or below row y
SampleOffsets ==
    { <<-SLOPE_THRESHOLD, SLOPE_THRESHOLD>>, <<SLOPE_THRESHOLD, -SLOPE_THRESHOLD>>,
      <<0, 0>>, <<-1, 1>>, <<0, 2>>, <<-2, 0>>, <<-4, 4>> }

InitSample ==
    /\ image \in SampleImages
    /\ y \in (-1)..ImgHeight(image)
    /\ \E o \in SampleOffsets : y_offset_left = o[1] /\ y_offset_right = o[2]
    /\ negative_rows \in {"wrap", "raise"}
    /\ sampled = <<>>
    /\ pc = "probe"
    /\ caller = "probe"
    /\ top = 0
    /\ pages = <<>>
    /\ page = <<>>
    /\ next_lines = <<>>
    /\ next_slopes_left = <<>>
    /\ next_slopes_right = <<>>
    /\ lines_to_remove = 0
    /\ run = 1
    /\ slabs = <<>>
    /\ trimmed = <<>>
    /\ led = 0
    /\ trailed = 0
    /\ pageTops = <<>>
    /\ preImage = image
    /\ first = NoRun
    /\ NoChapter
    /\ NoApps

\* Manga.get_slope_color(image, y, y_offset_left, y_offset_right)
SlopeColor ==
    /\ pc = "probe"
    /\ sampled' = slope_color(image, y, y_offset_left, y_offset_right, negative_rows)
    /\ pc' = "slope_color"
    /\ UNCHANGED <<image, y, top, pages, page, locals, caller, run, slabs, trimmed,
                   led, trailed, pageTops, preImage, first>>
    /\ UNCHANGED <<chapter, y_offset_left, y_offset_right, negative_rows, apps>>

\* Manga.get_line_color(image, y)
LineColor ==
    /\ pc = "probe"
    /\ sampled' = get_line_color(image, y)
    /\ pc' = "line_color"
    /\ UNCHANGED <<image, y, top, pages, page, locals, caller, run, slabs, trimmed,
                   led, trailed, pageTops, preImage, first>>
    /\ UNCHANGED <<chapter, y_offset_left, y_offset_right, negative_rows, apps>>

NextSample == SlopeColor \/ LineColor

SpecSample == InitSample /\ [][NextSample]_vars

\* The row of the sample point of the slope line in column x
SampleRow(x) ==
    SlopeYPos(ImgWidth(image), y + y_offset_left, y + y_offset_right, x)

\* The columns whose sample point is outside the image
Outside == { x \in 0..(ImgWidth(image) - 1) : SampleRow(x) < 0 \/ SampleRow(x) >= Height }

\* The row of the comparison pixel
MidRow == ((y + y_offset_left) + (y + y_offset_right)) \div 2

\* get_slope_color has returned a colour or None for a row of the image
SlopeProbed ==
    pc = "slope_color" /\ y >= 0 /\ y < Height /\ sampled # IndexError

\* C17 as stated (out-of-bounds sample points are dissimilar): a sample
\* point outside the image counts toward the limit of 5 dissimilar pixels, so
\* a slope line with more than 5 sample points outside the image is
\* classified non-uniform.
C17_OutsideIsDissimilar ==
    (SlopeProbed /\ Cardinality(Outside) > 5) => sampled = None

\* C17 as the code has it: sample points outside the image are skipped; the
\* slope line is non-uniform iff more than 5 of its sample points inside the
\* image are unlike the comparison pixel, and otherwise its colour is the
\* comparison pixel, however many sample points are outside.
C17_OutsideIsSkipped ==
    SlopeProbed =>
        LET comparison == getpixel_any(image, ImgWidth(image) \div 2, MidRow, negative_rows)
            unlike == { x \in (0..(ImgWidth(image) - 1)) \ Outside :
                          ~is_pixel_similar(getpixel(image, x, SampleRow(x)), comparison, 5) }
        IN  /\ sampled = None <=> Cardinality(unlike) > 5
            /\ sampled # None => sampled = comparison

\* a slope line with more than 5 sample points outside that is uniform
C17_Witness ==
    SlopeProbed /\ Cardinality(Outside) > 5 /\ sampled # None

\* C18 (slope_color is total): get_slope_color returns a colour or None and
\* never raises, for every row and every pair of offsets; when the
\* comparison pixel, at the middle of the slope line, is outside the image,
\* the result is None.
C18_SlopeColorTotal ==
    pc = "slope_color" =>
        /\ sampled # IndexError
        /\ (y >= 0 /\ y < Height /\ (MidRow < 0 \/ MidRow >= Height)) => sampled = None

\* ------------------------------------------------------------------------
\* Termination
\* ------------------------------------------------------------------------
\* The segmentation is one sequential computation: whenever it has a next
\* step it takes it.
FairSpec == Init /\ [][Next]_vars /\ WF_vars(Next)

\* ceil(height / MIN_IMAGE_HEIGHT)
MaxIterations == (Height + MIN_IMAGE_HEIGHT - 1) \div MIN_IMAGE_HEIGHT

\* Every find_cut(image, top) so far returned a row below top, the cursor is
\* below the top of the slab in work, the calls made do not outnumber
\* ceil(height / 400), and the loop is left with the cursor on height.
CursorAdvances ==
    /\ \A i \in 1..Len(slabs) : slabs[i].cut > slabs[i].top
    /\ pc \notin {"loop", "done"} => y > top
    /\ pc = "find_cut" => y <= Height
    /\ Len(slabs) <= MaxIterations
    /\ Finished => y = Height

\* C19 (termination): every find_cut(image, y) with y < height ends and
\* returns a row strictly greater than y, so the cursor of
\* split_image_into_pages strictly increases with every iteration, the
\* iterations number at most ceil(height / 400), and the loop eventually
\* ends with the cursor equal to height. The second call of
\* split_image_into_pages ends only if the first and every find_cut of both
\* have ended.
C19_Termination ==
    /\ []CursorAdvances
    /\ <>(Finished /\ run = 2 /\ y = Height)

\* A call has ended after exactly ceil(height / 400) iterations, more than one
C19_Witness ==
    /\ Finished
    /\ y = Height
    /\ Len(slabs) = MaxIterations
    /\ Len(slabs) >= 2
    /\ run = 2

\* ------------------------------------------------------------------------
\* The two trimmers, mirrored
\* ------------------------------------------------------------------------
\* The page upside down: row r of the result is row height - 1 - r of the page
Flip(pg) == [r \in 1..Len(pg) |-> pg[Len(pg) + 1 - r]]

\* remove_trailing_white_space(page) is called on a page, then
\* remove_leading_white_space on the same page upside down.
InitMirror ==
    /\ page \in TrimPages
    /\ preImage = page
    /\ image = <<>>
    /\ y = 0
    /\ top = 0
    /\ pages = <<>>
    /\ next_lines = <<>>
    /\ next_slopes_left = <<>>
    /\ next_slopes_right = <<>>
    /\ lines_to_remove = 0
    /\ pc = "trailing_enter"
    /\ caller = "mirror"
    /\ run = 1
    /\ slabs = <<>>
    /\ trimmed = <<>>
    /\ led = 0
    /\ trailed = 0
    /\ pageTops = <<>>
    /\ first = NoRun
    /\ NoChapter
    /\ NoProbe
    /\ NoApps

\* The trailing trimmer has returned: the leading trimmer is called on the
\* flipped page
MirrorFlip ==
    /\ pc = "flip"
    /\ page' = Flip(preImage)
    /\ pc' = "leading_enter"
    /\ UNCHANGED <<image, y, top, pages, locals, caller, run, slabs, trimmed, led, trailed,
                   pageTops, preImage, first>>
    /\ UNCHANGED <<chapter, probe, apps>>

NextMirror ==
    \/ TrailingEnter
    \/ TrailingAdvance
    \/ TrailingReturn
    \/ MirrorFlip
    \/ LeadingEnter
    \/ LeadingAdvance
    \/ LeadingReturn

SpecMirror == InitMirror /\ [][NextMirror]_vars

\* The samples of rows height - 1 - k, ..., height - 5 - k of the page
BottomWindow(pg, k) ==
    [i \in 1..NUM_EMPTY_LINES |-> get_line_color(pg, ImgHeight(pg) - 1 - k - (i - 1))]

\* The samples of rows k, ..., k + 4 of the page
TopWindow(pg, k) ==
    [i \in 1..NUM_EMPTY_LINES |-> get_line_color(pg, k + (i - 1))]

\* C20 (trim symmetry): at step k the window of the trailing scan holds the
\* samples of rows height-1-k .. height-5-k of the page and the window of the
\* leading scan those of rows k .. k+4, which on the flipped page are the same
\* samples; and trimming the bottom of a page removes exactly as many rows as
\* trimming the top of the page flipped vertically.
C20_TrimSymmetry ==
    /\ pc = "trailing" => next_lines = BottomWindow(preImage, lines_to_remove)
    /\ pc = "leading" =>
          /\ next_lines = TopWindow(Flip(preImage), lines_to_remove)
          /\ next_lines = BottomWindow(preImage, lines_to_remove)
    /\ pc = "mirrored" => led = trailed

\* Both scans have ended on a page with content, after removing some rows but
\* not all of them
C20_Witness ==
    /\ pc = "mirrored"
    /\ led = trailed
    /\ led > 1
    /\ led < ImgHeight(preImage)
    /\ \E r \in 0..(ImgHeight(preImage) - 1) : ~BlankRow(preImage, r)
    /\ Flip(preImage) # preImage

\* ------------------------------------------------------------------------
\* The viewer
\* ------------------------------------------------------------------------
\* The number of chapters of the manga, and the most pages a chapter loads
MaxChapters == 3
MaxViewerPages == 5

\* get_all_chapters(): [str(i) for i in range(MaxChapters)]
get_all_chapters == [k \in 1..MaxChapters |-> str(k - 1)]

ValueError == <<"ValueError">>

\* whether chapters.index(ch) finds the chapter (it raises ValueError if not)
listed(chapters, ch) == \E k \in 1..Len(chapters) : chapters[k] = ch

\* chapters.index(ch): the first position (from 0) of a chapter of the list
index(chapters, ch) ==
    Minimum({ k \in 1..Len(chapters) : chapters[k] = ch }) - 1

get_next_chapter(ch) ==
    LET chapters == get_all_chapters
    IN  IF ~listed(chapters, ch) THEN ValueError
        ELSE IF index(chapters, ch) + 1 < Len(chapters)
             THEN chapters[index(chapters, ch) + 1 + 1]
             ELSE ch

get_previous_chapter(ch) ==
    LET chapters == get_all_chapters
    IN  IF ~listed(chapters, ch) THEN ValueError
        ELSE IF index(chapters, ch) - 1 >= 0
             THEN chapters[index(chapters, ch) - 1 + 1]
             ELSE ch

\* What the user can have in the chapter entry: a chapter of the list, or a
\* text that is no chapter of the list
EntryTexts == { get_all_chapters[k] : k \in 1..MaxChapters } \cup {<<>>, <<"x">>}

\* The list of the n pages of a chapter
PagesOf(ch, n) == [k \in 1..n |-> <<ch, k - 1>>]

\* The call raised and returned nothing
Raised == [raised |-> TRUE, pages |-> <<>>]

\* What process_images_from_chapter(chapter) can do: return the list of the
\* chapter's pages, of any length, or raise (the fetch failed, the chapter
\* has no image)
process_images_from_chapter(ch) ==
    { [raised |-> FALSE, pages |-> PagesOf(ch, n)] : n \in 0..MaxViewerPages }
    \cup {Raised}

\* The body of fetch_chapter once the entry holds `text`. What is assigned
\* before the pages are loaded stays assigned when the load raises.
fetch_chapter(text) ==
    /\ self_chapter' = text
    /\ \E loaded \in process_images_from_chapter(text) :
          IF loaded.raised
          THEN UNCHANGED <<self_pages, current_page>>
          ELSE /\ self_pages' = loaded.pages
               /\ current_page' = 0

\* The viewer the selector opened on a chapter of the list: __init__ has
\* called fetch_chapter and it returned
InitViewer ==
    /\ \E k \in 1..MaxChapters, n \in 0..MaxViewerPages :
          /\ self_chapter = get_all_chapters[k]
          /\ chapter_input = get_all_chapters[k]
          /\ self_pages = PagesOf(get_all_chapters[k], n)
    /\ current_page = 0
    /\ NoFetch
    /\ NoPrefetch
    /\ NoChapter
    /\ NoProbe
    /\ image = <<>>
    /\ y = 0
    /\ top = 0
    /\ pages = <<>>
    /\ page = <<>>
    /\ next_lines = <<>>
    /\ next_slopes_left = <<>>
    /\ next_slopes_right = <<>>
    /\ lines_to_remove = 0
    /\ pc = "viewer"
    /\ caller = "viewer"
    /\ run = 1
    /\ slabs = <<>>
    /\ trimmed = <<>>
    /\ led = 0
    /\ trailed = 0
    /\ pageTops = <<>>
    /\ preImage = <<>>
    /\ first = NoRun

ViewerStep == UNCHANGED <<segmentation, chapter, probe, fetching, prefetch>>

\* the user edits the chapter entry
TypeChapter ==
    /\ \E text \in EntryTexts : chapter_input' = text
    /\ UNCHANGED <<self_pages, current_page, self_chapter>>
    /\ ViewerStep

\* the Fetch Chapter button, or Return in the entry: fetch_chapter()
FetchChapter ==
    /\ fetch_chapter(chapter_input)
    /\ UNCHANGED chapter_input
    /\ ViewerStep

\* the Previous button or the left arrow key: prev_page()
PrevPage ==
    /\ IF current_page > 1
       THEN /\ current_page' = current_page - 2
            /\ UNCHANGED <<self_pages, self_chapter, chapter_input>>
       ELSE IF get_previous_chapter(self_chapter) = ValueError
            THEN \* the entry was emptied before the lookup raised
                 /\ chapter_input' = <<>>
                 /\ UNCHANGED <<self_pages, current_page, self_chapter>>
            ELSE /\ chapter_input' = get_previous_chapter(self_chapter)
                 /\ fetch_chapter(get_previous_chapter(self_chapter))
    /\ ViewerStep

\* the Next button or the right arrow key: next_page()
NextPage ==
    /\ IF current_page < Len(self_pages) - 2
       THEN /\ current_page' = current_page + 2
            /\ UNCHANGED <<self_pages, self_chapter, chapter_input>>
       ELSE IF get_next_chapter(self_chapter) = ValueError
            THEN \* the entry was emptied before the lookup raised
                 /\ chapter_input' = <<>>
                 /\ UNCHANGED <<self_pages, current_page, self_chapter>>
            ELSE /\ chapter_input' = get_next_chapter(self_chapter)
                 /\ fetch_chapter(get_next_chapter(self_chapter))
    /\ ViewerStep

NextViewer ==
    \/ TypeChapter
    \/ FetchChapter
    \/ PrevPage
    \/ NextPage

SpecViewer == InitViewer /\ [][NextViewer]_vars

\* current_page is even and not negative, and is a position of the page list
\* when the list is not empty
CursorInRange ==
    /\ current_page % 2 = 0
    /\ current_page >= 0
    /\ self_pages # <<>> => current_page < Len(self_pages)

\* The viewer shows the chapter from its first page
Loaded(ch) ==
    /\ self_chapter' = ch
    /\ \E n \in 0..MaxViewerPages : self_pages' = PagesOf(ch, n)
    /\ current_page' = 0

\* C21 (viewer page cursor): current_page is always even, at least 0, and
\* below len(pages) when pages is not empty; next_page adds 2 within the
\* chapter while current_page < len(pages) - 2 and otherwise loads the next
\* chapter with current_page back on 0; prev_page subtracts 2 while
\* current_page > 1 and otherwise loads the previous chapter with
\* current_page back on 0.
C21_PageCursor ==
    /\ []CursorInRange
    /\ [][NextPage =>
            IF current_page < Len(self_pages) - 2
            THEN current_page' = current_page + 2
                 /\ UNCHANGED <<self_pages, self_chapter>>
            ELSE Loaded(get_next_chapter(self_chapter))]_vars
    /\ [][PrevPage =>
            IF current_page > 1
            THEN current_page' = current_page - 2
                 /\ UNCHANGED <<self_pages, self_chapter>>
            ELSE Loaded(get_previous_chapter(self_chapter))]_vars

\* ------------------------------------------------------------------------
\* fetch
\* ------------------------------------------------------------------------
\* for _ in range(3)
FetchAttempts == 3

\* The number of different contents a request can return
MaxContents == 3

\* What a requests.get can do: return a response with some content, or raise
\* requests.RequestException
Responses ==
    { [raises |-> FALSE, content |-> c] : c \in 1..MaxContents }
    \cup { [raises |-> TRUE, content |-> 0] }

\* fetch(url) is called; the requests it makes will do `outcomes`
InitFetch ==
    /\ outcomes \in [1..FetchAttempts -> Responses]
    /\ attempts = 0
    /\ fetched = <<>>
    /\ fetch_pc = "request"
    /\ NoViewer
    /\ NoPrefetch
    /\ NoChapter
    /\ NoProbe
    /\ image = <<>>
    /\ y = 0
    /\ top = 0
    /\ pages = <<>>
    /\ page = <<>>
    /\ next_lines = <<>>
    /\ next_slopes_left = <<>>
    /\ next_slopes_right = <<>>
    /\ lines_to_remove = 0
    /\ pc = "fetch"
    /\ caller = "fetch"
    /\ run = 1
    /\ slabs = <<>>
    /\ trimmed = <<>>
    /\ led = 0
    /\ trailed = 0
    /\ pageTops = <<>>
    /\ preImage = <<>>
    /\ first = NoRun

FetchStep == UNCHANGED <<segmentation, chapter, probe, viewer, prefetch, outcomes>>

\* response = requests.get(url, headers=headers); return response.content
FetchGet ==
    /\ fetch_pc = "request"
    /\ ~outcomes[attempts + 1].raises
    /\ attempts' = attempts + 1
    /\ fetched' = [raised |-> FALSE, content |-> outcomes[attempts + 1].content]
    /\ fetch_pc' = "returned"
    /\ FetchStep

\* requests.get raises: except requests.RequestException
FetchExcept ==
    /\ fetch_pc = "request"
    /\ outcomes[attempts + 1].raises
    /\ attempts' = attempts + 1
    /\ fetch_pc' = "except"
    /\ UNCHANGED fetched
    /\ FetchStep

\* FetchSleep giving up after the second request
FetchSleepTwice ==
    /\ fetch_pc = "except"
    /\ fetch_pc' = IF attempts < FetchAttempts - 1 THEN "request" ELSE "exhausted"
    /\ UNCHANGED <<attempts, fetched>>
    /\ FetchStep

\* log(...); time.sleep(20), and the next turn of the loop if there is one
FetchSleep ==
    /\ fetch_pc = "except"
    /\ fetch_pc' = IF attempts < FetchAttempts THEN "request" ELSE "exhausted"
    /\ UNCHANGED <<attempts, fetched>>
    /\ FetchStep

\* raise requests.RequestException(...)
FetchRaise ==
    /\ fetch_pc = "exhausted"
    /\ fetched' = [raised |-> TRUE, content |-> 0]
    /\ fetch_pc' = "raised"
    /\ UNCHANGED attempts
    /\ FetchStep

NextFetch ==
    \/ FetchGet
    \/ FetchExcept
    \/ FetchSleep
    \/ FetchRaise

SpecFetch == InitFetch /\ [][NextFetch]_vars

\* The requests that do not raise
Succeeding == { k \in 1..FetchAttempts : ~outcomes[k].raises }

\* C22 (fetch retry): fetch makes at most 3 requests, one after the other,
\* each only after all the earlier ones raised; it returns the content of the
\* first request that does not raise and makes no request after it; and it
\* raises RequestException if and only if all 3 requests raised.
C22_FetchRetry ==
    /\ attempts <= FetchAttempts
    /\ \A k \in 1..(attempts - 1) : outcomes[k].raises
    /\ fetch_pc = "request" => attempts < FetchAttempts
    /\ fetch_pc = "returned" =>
          /\ attempts = Minimum(Succeeding)
          /\ fetched = [raised |-> FALSE, content |-> outcomes[attempts].content]
    /\ fetch_pc = "raised" =>
          /\ fetched.raised
          /\ attempts = FetchAttempts
          /\ Succeeding = {}
    /\ (fetch_pc \in {"returned", "raised"} /\ Succeeding = {}) => fetch_pc = "raised"

\* fetch returned the content of its last request after all the earlier ones
\* raised
C22_Witness ==
    /\ fetch_pc = "returned"
    /\ attempts = FetchAttempts
    /\ \A k \in 1..(FetchAttempts - 1) : outcomes[k].raises
    /\ fetched.content = outcomes[FetchAttempts].content

\* ------------------------------------------------------------------------
\* prefetch_all_chapters
\* ------------------------------------------------------------------------
\* if i % 10 == 0
JoinEvery == 10

\* The most chapters a manga has, and the most of them whose process fails
\* to start
MaxPrefetch == 21
MaxStartFailures == 1

\* prefetch_all_chapters(manga) is called on a manga of all_chapters chapters,
\* which the loop numbers 0, 1, ...
InitPrefetch ==
    /\ all_chapters \in 0..MaxPrefetch
    /\ chapter_index = 0
    /\ processes = <<>>
    /\ started = <<>>
    /\ joined = <<>>
    /\ prefetch_pc = "for"
    /\ NoViewer
    /\ NoFetch
    /\ NoChapter
    /\ NoProbe
    /\ image = <<>>
    /\ y = 0
    /\ top = 0
    /\ pages = <<>>
    /\ page = <<>>
    /\ next_lines = <<>>
    /\ next_slopes_left = <<>>
    /\ next_slopes_right = <<>>
    /\ lines_to_remove = 0
    /\ pc = "prefetch"
    /\ caller = "prefetch"
    /\ run = 1
    /\ slabs = <<>>
    /\ trimmed = <<>>
    /\ led = 0
    /\ trailed = 0
    /\ pageTops = <<>>
    /\ preImage = <<>>
    /\ first = NoRun

PrefetchStep == UNCHANGED <<segmentation, chapter, probe, viewer, fetching, all_chapters>>

\* process = Process(...); process.start(); processes.append(process)
PrefetchStart ==
    /\ prefetch_pc = "for"
    /\ chapter_index < all_chapters
    /\ started' = Append(started, chapter_index)
    /\ processes' = Append(processes, chapter_index)
    /\ prefetch_pc' = "if"
    /\ UNCHANGED <<chapter_index, joined>>
    /\ PrefetchStep

\* Process(...) or process.start() raises: except Exception, log
PrefetchStartFails ==
    /\ prefetch_pc = "for"
    /\ chapter_index < all_chapters
    /\ chapter_index - Len(started) < MaxStartFailures
    /\ prefetch_pc' = "if"
    /\ UNCHANGED <<chapter_index, processes, started, joined>>
    /\ PrefetchStep

\* PrefetchCheck with the join after every eleventh chapter
PrefetchCheckEleven ==
    /\ prefetch_pc = "if"
    /\ IF chapter_index % (JoinEvery + 1) = 0
       THEN /\ prefetch_pc' = "join"
            /\ UNCHANGED chapter_index
       ELSE /\ prefetch_pc' = "for"
            /\ chapter_index' = chapter_index + 1
    /\ UNCHANGED <<processes, started, joined>>
    /\ PrefetchStep

\* if i % 10 == 0: the join loop is entered, else the next chapter
PrefetchCheck ==
    /\ prefetch_pc = "if"
    /\ IF chapter_index % JoinEvery = 0
       THEN /\ prefetch_pc' = "join"
            /\ UNCHANGED chapter_index
       ELSE /\ prefetch_pc' = "for"
            /\ chapter_index' = chapter_index + 1
    /\ UNCHANGED <<processes, started, joined>>
    /\ PrefetchStep

\* The processes of the list that the join loop has not joined yet
ToJoin == { k \in 1..Len(processes) : \A j \in 1..Len(joined) : joined[j] # processes[k] }

\* for process in processes: process.join()
PrefetchJoin ==
    /\ prefetch_pc = "join"
    /\ ToJoin # {}
    /\ joined' = Append(joined, processes[Minimum(ToJoin)])
    /\ UNCHANGED <<chapter_index, processes, started, prefetch_pc>>
    /\ PrefetchStep

\* processes.clear(), and the next chapter
PrefetchClear ==
    /\ prefetch_pc = "join"
    /\ ToJoin = {}
    /\ processes' = <<>>
    /\ chapter_index' = chapter_index + 1
    /\ prefetch_pc' = "for"
    /\ UNCHANGED <<started, joined>>
    /\ PrefetchStep

\* the list of chapters is exhausted: prefetch_all_chapters returns
PrefetchReturn ==
    /\ prefetch_pc = "for"
    /\ ~(chapter_index < all_chapters)
    /\ prefetch_pc' = "done"
    /\ UNCHANGED <<chapter_index, processes, started, joined>>
    /\ PrefetchStep

NextPrefetch ==
    \/ PrefetchStart
    \/ PrefetchStartFails
    \/ PrefetchCheck
    \/ PrefetchJoin
    \/ PrefetchClear
    \/ PrefetchReturn

SpecPrefetch == InitPrefetch /\ [][NextPrefetch]_vars

\* The chapters whose process was started and is not joined yet
Outstanding ==
    { started[k] : k \in 1..Len(started) } \ { joined[j] : j \in 1..Len(joined) }

\* The last of the indices 0, 10, 20, ... whose join loop has ended, -1 if none
LastJoinIndex ==
    IF prefetch_pc \in {"if", "join"}
    THEN ((chapter_index + JoinEvery - 1) \div JoinEvery) * JoinEvery - JoinEvery
    ELSE IF chapter_index = 0 THEN -1
    ELSE ((chapter_index - 1) \div JoinEvery) * JoinEvery

\* C23 (prefetch batching): the processes are started in the order of the
\* chapter list; once the chapter at an index 0, 10, 20, ... is handled every
\* process started up to it is joined; and never are more than 10 processes
\* started and not yet joined, however many chapters there are.
C23_PrefetchBatching ==
    /\ \A k \in 1..Len(started) :
          /\ started[k] < all_chapters
          /\ started[k] <= chapter_index
          /\ k > 1 => started[k - 1] < started[k]
    /\ \A c \in Outstanding : c > LastJoinIndex
    /\ \A j \in 1..Len(joined) :
          joined[j] <= LastJoinIndex \/ (prefetch_pc = "join" /\ joined[j] <= chapter_index)
    /\ Cardinality(Outstanding) <= JoinEvery

\* Ten processes are outstanding, in a second batch, right before their join
C23_Witness ==
    /\ Cardinality(Outstanding) = JoinEvery
    /\ prefetch_pc = "join"
    /\ chapter_index = 2 * JoinEvery
    /\ joined # <<>>

====
